---------------------------- MODULE Spec2Model ----------------------------
(***************************************************************************)
(* LinkFinderAPI (src/api.py): the POST /analyze handler and the functions *)
(* it calls (parser_file, get_context, the compound pattern regex_str).    *)
(*                                                                         *)
(* A text is a record [s, pad]: the characters s followed by pad spaces.   *)
(* The trailing run of spaces is kept as a count so that request bodies    *)
(* around the 1,000,000-character threshold of parser_file are ordinary    *)
(* values of the model. Characters are one-character strings; offsets are  *)
(* Python's (0-based, slices half-open).                                   *)
(***************************************************************************)
EXTENDS Integers, Sequences, FiniteSets, TLC

\* ------------------------------------------------------------ characters
DQ == "\""
SQ == "'"
NL == "\n"
CR == "\r"
SP == " "
BS == "\\"

Lower == {"a","b","c","d","e","f","g","h","i","j","k","l","m",
          "n","o","p","q","r","s","t","u","v","w","x","y","z"}
Upper == {"A","B","C","D","E","F","G","H","I","J","K","L","M",
          "N","O","P","Q","R","S","T","U","V","W","X","Y","Z"}
Digits == {"0","1","2","3","4","5","6","7","8","9"}
Letters == Lower \cup Upper

\* The characters of a text are those of Basic Latin and Latin-1 (code
\* points 0-255). The ones below have no escape and stand as they are:
\* U+000B (vertical tab), U+001C-U+001F (file, group, record and unit
\* separator), U+0085 (next line), U+00A0 (no-break space).
VT == ""
FS == ""
GS == ""
RS == ""
US == ""
NEL == ""
NBSP == " "

\* str.strip() with no argument strips the characters c with c.isspace():
\* these, among the code points 0-255
Whitespace == {SP, NL, CR, "\t", "\f", VT, FS, GS, RS, US, NEL, NBSP}

\* ------------------------------------------------------------ sequences
Str(w) == [s |-> w, pad |-> 0]

StrLen(t) == Len(t.s) + t.pad

\* content[i], 0-based; "IndexError" when i is outside 0..len-1
CharAt(t, i) ==
    IF i < 0 \/ i >= StrLen(t) THEN "IndexError"
    ELSE IF i < Len(t.s) THEN t.s[i + 1] ELSE SP

\* The one element of a singleton set. A local value v of the code that is
\* computed once and read many times is written Only({ e(x) : x \in {v} }).
Only(S) == CHOOSE v \in S : TRUE

Min(a, b) == IF a < b THEN a ELSE b
Max(a, b) == IF a > b THEN a ELSE b

\* content[a:b] for 0 <= a, 0 <= b (Python clamps both to len)
Slice(t, a, b) ==
    LET n  == Len(t.s)
        hi == Min(b, StrLen(t))
        lo == Min(a, hi)
    IN  [s   |-> SubSeq(t.s, Min(lo, n) + 1, Min(hi, n)),
         pad |-> Max(hi, n) - Max(lo, n)]

\* A character class: the listed set, or (neg) its complement
InClass(c, C) == IF C.neg THEN c \notin C.set ELSE c \in C.set

\* w[a..b] (1-based, inclusive), every character in class C
AllIn(w, a, b, C) == \A i \in a..b : InClass(w[i], C)

StartsWith(w, p) == Len(w) >= Len(p) /\ SubSeq(w, 1, Len(p)) = p

\* ------------------------------------------------- the compound pattern
\* [a-zA-Z]
ClsLetters == [neg |-> FALSE, set |-> Letters]
\* [^"'/]
ClsDomain == [neg |-> TRUE, set |-> {DQ, SQ, "/"}]
\* [^"']
ClsNotQuote == [neg |-> TRUE, set |-> {DQ, SQ}]
\* [^"'><,;| *()(%%$^/\\\[\]]
ClsNotStart == [neg |-> TRUE, set |-> {DQ, SQ, ">", "<", ",", ";", "|", SP, "*",
                                       "(", ")", "%", "$", "^", "/", BS, "[", "]"}]
\* [^"'><,;|()]
ClsPathRest == [neg |-> TRUE, set |-> {DQ, SQ, ">", "<", ",", ";", "|", "(", ")"}]
\* [a-zA-Z0-9_\-/]
ClsPathSafe == [neg |-> FALSE, set |-> Letters \cup Digits \cup {"_", "-", "/"}]
\* [a-zA-Z0-9_\-/.]
ClsResource == [neg |-> FALSE, set |-> Letters \cup Digits \cup {"_", "-", "/", "."}]
\* [a-zA-Z0-9_\-]
ClsFileName == [neg |-> FALSE, set |-> Letters \cup Digits \cup {"_", "-"}]
\* [\?|#]
ClsQueryMark == [neg |-> FALSE, set |-> {"?", "|", "#"}]
\* [^"|']
ClsQueryRest == [neg |-> TRUE, set |-> {DQ, "|", SQ}]

\* php|asp|aspx|jsp|json|action|html|js|txt|xml
Extensions == { <<"p","h","p">>, <<"a","s","p">>, <<"a","s","p","x">>,
                <<"j","s","p">>, <<"j","s","o","n">>,
                <<"a","c","t","i","o","n">>, <<"h","t","m","l">>,
                <<"j","s">>, <<"t","x","t">>, <<"x","m","l">> }

\* (?:[\?|#][^"|']{0,}|) matching w[i..Len(w)]
Query(w, i) ==
    \/ i = Len(w) + 1
    \/ /\ i <= Len(w)
       /\ InClass(w[i], ClsQueryMark)
       /\ AllIn(w, i + 1, Len(w), ClsQueryRest)

\* (?:[a-zA-Z]{1,10}://|//) matching w[1..p]
Scheme(w, p) ==
    \/ p = 2 /\ SubSeq(w, 1, 2) = <<"/", "/">>
    \/ /\ p >= 4
       /\ p - 3 <= 10
       /\ SubSeq(w, p - 2, p) = <<":", "/", "/">>
       /\ AllIn(w, 1, p - 3, ClsLetters)

\* alternative 1: scheme, domain with a dot, extension, rest
Alt1(w) ==
    \E p \in 2..Len(w) :
        /\ Scheme(w, p)
        /\ \E d \in (p + 2)..Len(w) :
              /\ w[d] = "."
              /\ AllIn(w, p + 1, d - 1, ClsDomain)
              /\ \E e \in (d + 2)..Len(w) :
                    /\ AllIn(w, d + 1, e, ClsLetters)
                    /\ AllIn(w, e + 1, Len(w), ClsNotQuote)

\* alternative 2: /, ../ or ./, one restricted character, one or more others
Alt2(w) ==
    \E pre \in { <<"/">>, <<".", ".", "/">>, <<".", "/">> } :
        /\ StartsWith(w, pre)
        /\ Len(w) >= Len(pre) + 2
        /\ InClass(w[Len(pre) + 1], ClsNotStart)
        /\ AllIn(w, Len(pre) + 2, Len(w), ClsPathRest)

\* alternative 3: path/, resource name, . extension (1-4 letters or action)
Alt3(w) ==
    \E a \in 2..Len(w) :
        /\ w[a] = "/"
        /\ AllIn(w, 1, a - 1, ClsPathSafe)
        /\ \E d \in (a + 2)..Len(w) :
              /\ w[d] = "."
              /\ AllIn(w, a + 1, d - 1, ClsResource)
              /\ \E e \in (d + 1)..Len(w) :
                    /\ \/ e - d <= 4 /\ AllIn(w, d + 1, e, ClsLetters)
                       \/ SubSeq(w, d + 1, e) = <<"a","c","t","i","o","n">>
                    /\ Query(w, e + 1)

\* alternative 4: path/, three or more path characters, no extension
Alt4(w) ==
    \E a \in 2..Len(w) :
        /\ w[a] = "/"
        /\ AllIn(w, 1, a - 1, ClsPathSafe)
        /\ \E e \in (a + 3)..Len(w) :
              /\ AllIn(w, a + 1, e, ClsPathSafe)
              /\ Query(w, e + 1)

\* alternative 5: file name, . and one of the listed extensions
Alt5(w) ==
    \E d \in 2..Len(w) :
        /\ w[d] = "."
        /\ AllIn(w, 1, d - 1, ClsFileName)
        /\ \E ext \in Extensions :
              /\ d + Len(ext) <= Len(w)
              /\ SubSeq(w, d + 1, d + Len(ext)) = ext
              /\ Query(w, d + Len(ext) + 1)

\* regex_str with the extensionless REST alternative written before the
\* root/relative path alternative
regex_str_RestFirst(w) ==
    IF Alt1(w) THEN 1
    ELSE IF Alt4(w) THEN 4
    ELSE IF Alt2(w) THEN 2
    ELSE IF Alt3(w) THEN 3
    ELSE IF Alt5(w) THEN 5
    ELSE 0

\* The alternative that participates when the text between two quotes is w:
\* the regex engine tries them in the order written; 0 when none matches.
\* No alternative admits a quote character, so a match of the whole pattern
\* spans exactly one opening quote, the quote-free run w, and the next quote.
regex_str(w) ==
    IF Alt1(w) THEN 1
    ELSE IF Alt2(w) THEN 2
    ELSE IF Alt3(w) THEN 3
    ELSE IF Alt4(w) THEN 4
    ELSE IF Alt5(w) THEN 5
    ELSE 0

IsQuote(c) == c \in {DQ, SQ}

\* index of the first quote of w at or after position p (1-based), else 0
RECURSIVE NextQuote(_, _)
NextQuote(w, p) ==
    IF p > Len(w) THEN 0
    ELSE IF IsQuote(w[p]) THEN p
    ELSE NextQuote(w, p + 1)

\* re.finditer(regex, content) from position p (1-based) on: the matches
\* left to right, non-overlapping, as (group(1), start(0), end(0), group)
RECURSIVE finditer(_, _)
finditer(w, p) ==
    LET o == NextQuote(w, p)
        c == IF o = 0 THEN 0 ELSE NextQuote(w, o + 1)
        link == SubSeq(w, o + 1, c - 1)
        alt == regex_str(link)
    IN  IF o = 0 \/ c = 0 THEN << >>
        ELSE IF alt # 0
             THEN << [link |-> link, start |-> o - 1, end |-> c, alt |-> alt] >>
                  \o finditer(w, c + 1)
             ELSE finditer(w, o + 1)

\* ----------------------------------------------------------- reformatting
\* the size above which parser_file skips the beautifier
BeautifyLimit == 1000000

\* w[i..].replace(c, c + "\r\n") on a character sequence w
RECURSIVE ReplaceAfter(_, _, _)
ReplaceAfter(w, c, i) ==
    IF i > Len(w) THEN << >>
    ELSE IF w[i] = c THEN <<c, CR, NL>> \o ReplaceAfter(w, c, i + 1)
    ELSE <<w[i]>> \o ReplaceAfter(w, c, i + 1)

\* content.replace(";", ";\r\n").replace(",", ",\r\n"): the trailing
\* spaces hold neither character
CheapReformat(t) ==
    [s |-> Only({ ReplaceAfter(w, ",", 1) : w \in { ReplaceAfter(t.s, ";", 1) } }),
     pad |-> t.pad]

\* index of the quote closing the string literal opened with q before position p
RECURSIVE CloseQuote(_, _, _)
CloseQuote(w, p, q) ==
    IF p >= Len(w) THEN Len(w)
    ELSE IF w[p] = q THEN p
    ELSE CloseQuote(w, p + 1, q)

\* jsbeautifier.beautify with its default options, for a text made of string
\* literals (without escapes or line breaks), ';', ',' and spaces, which is
\* what the requests of this model hold: a string literal is copied verbatim;
\* ';' ends the line; ',' is followed by one space; other spaces are dropped;
\* the output carries no trailing white space. pend is what is written
\* before the next token, if there is one.
RECURSIVE BeautifyFrom(_, _, _)
BeautifyFrom(w, i, pend) ==
    IF i > Len(w) THEN << >>
    ELSE IF w[i] = SP THEN BeautifyFrom(w, i + 1, pend)
    ELSE IF w[i] = ";" THEN <<";">> \o BeautifyFrom(w, i + 1, <<NL>>)
    ELSE IF w[i] = "," THEN <<",">> \o BeautifyFrom(w, i + 1, <<SP>>)
    ELSE IF IsQuote(w[i])
         THEN LET e == CloseQuote(w, i + 1, w[i])
              IN  pend \o SubSeq(w, i, e) \o BeautifyFrom(w, e + 1, <<NL>>)
    ELSE pend \o <<w[i]>> \o BeautifyFrom(w, i + 1, << >>)

Beautify(t) == Str(BeautifyFrom(t.s, 1, << >>))

\* Reformat with the size test written >= : a content of exactly
\* BeautifyLimit characters skips the beautifier
Reformat_AtLimit(content, mode) ==
    IF mode = 1
    THEN IF StrLen(content) >= BeautifyLimit
         THEN [path |-> "cheap", text |-> CheapReformat(content)]
         ELSE [path |-> "beautify", text |-> Beautify(content)]
    ELSE [path |-> "none", text |-> content]

\* parser_file, lines 136-141: which reformatting runs, and its result
Reformat(content, mode) ==
    IF mode = 1
    THEN IF StrLen(content) > BeautifyLimit
         THEN [path |-> "cheap", text |-> CheapReformat(content)]
         ELSE [path |-> "beautify", text |-> Beautify(content)]
    ELSE [path |-> "none", text |-> content]

\* ------------------------------------------------------------ get_context
context_delimiter_str == NL

\* while content[i] != delimiter and i > 0: i = i - 1
RECURSIVE ScanBack(_, _)
ScanBack(content, i) ==
    IF CharAt(content, i) = "IndexError" THEN -1
    ELSE IF CharAt(content, i) # context_delimiter_str /\ i > 0
         THEN ScanBack(content, i - 1)
         ELSE i

\* while content[i] != delimiter and i < content_max_index: i = i + 1
\* (-1: content[i] raised IndexError; inside the trailing spaces no character
\* is the delimiter, so the loop runs on to content_max_index)
RECURSIVE ScanForward(_, _)
ScanForward(content, i) ==
    LET content_max_index == StrLen(content) - 1
    IN  IF CharAt(content, i) = "IndexError" THEN -1
        ELSE IF CharAt(content, i) # context_delimiter_str /\ i < content_max_index
             THEN IF i >= Len(content.s) THEN content_max_index
                  ELSE ScanForward(content, i + 1)
             ELSE i

\* the body of get_context's loop for one match m
ContextOf(m, content, include_delimiter) ==
    LET delimiter_len == Len(<<context_delimiter_str>>)
        context_start_index == ScanBack(content, m.start)
        context_end_index == ScanForward(content, m.end)
    IN  IF context_start_index < 0 \/ context_end_index < 0
        THEN [exc |-> "IndexError"]
        ELSE [exc |-> "none",
              item |-> [link |-> m.link,
                        context |-> IF include_delimiter
                                    THEN Slice(content, context_start_index,
                                               context_end_index)
                                    ELSE Slice(content,
                                               context_start_index + delimiter_len,
                                               context_end_index)]]

\* get_context: the items of all matches, or the first exception raised
get_context(list_matches, content, include_delimiter) ==
    LET one(i) == ContextOf(list_matches[i], content, include_delimiter)
    IN  IF \E i \in 1..Len(list_matches) : one(i).exc # "none"
        THEN [exc |-> "IndexError", items |-> << >>]
        ELSE [exc |-> "none",
              items |-> [i \in 1..Len(list_matches) |-> one(i).item]]

\* ----------------------------------------------------- the filter regex
\* An Optional[str] is a sequence of at most one value: None, or Some(x)
None == << >>
Some(x) == <<x>>

\* The filter patterns of this model are written with literal characters
\* (no metacharacter), '\' before a character that is no letter or digit
\* (that character), '\d', '\D', '\s', '\S', '.', a final '$' and
\* parentheses that group.
\* re.compile raises re.error for a pattern whose parentheses do not
\* balance and for one that ends inside an escape
RECURSIVE ParenDepth(_, _, _)
ParenDepth(p, i, depth) ==
    IF i > Len(p) THEN depth
    ELSE IF p[i] = BS
         THEN IF i = Len(p) THEN -1 ELSE ParenDepth(p, i + 2, depth)
    ELSE IF p[i] = "(" THEN ParenDepth(p, i + 1, depth + 1)
    ELSE IF p[i] = ")"
         THEN IF depth = 0 THEN -1 ELSE ParenDepth(p, i + 1, depth - 1)
    ELSE ParenDepth(p, i + 1, depth)

ReCompiles(p) == ParenDepth(p, 1, 0) = 0

\* the character class of the escape '\' c
EscapeClass(c) ==
    IF c = "d" THEN [neg |-> FALSE, set |-> Digits]
    ELSE IF c = "D" THEN [neg |-> TRUE, set |-> Digits]
    ELSE IF c = "s" THEN [neg |-> FALSE, set |-> Whitespace]
    ELSE IF c = "S" THEN [neg |-> TRUE, set |-> Whitespace]
    ELSE [neg |-> FALSE, set |-> {c}]

\* the pattern's atoms, left to right, each the class of the characters it
\* matches: a literal character, an escape, or '.' (any character but a
\* line break); parentheses only group, the final '$' is no atom
RECURSIVE Atoms(_, _)
Atoms(p, i) ==
    IF i > Len(p) THEN << >>
    ELSE IF p[i] = BS THEN <<EscapeClass(p[i + 1])>> \o Atoms(p, i + 2)
    ELSE IF p[i] = "$" /\ i = Len(p) THEN << >>
    ELSE IF p[i] \in {"(", ")"} THEN Atoms(p, i + 1)
    ELSE IF p[i] = "." THEN <<[neg |-> TRUE, set |-> {NL}]>> \o Atoms(p, i + 1)
    ELSE <<[neg |-> FALSE, set |-> {p[i]}]>> \o Atoms(p, i + 1)

\* whether the pattern, read from position i on, ends with the anchor '$':
\* a '$' that ends the pattern and is not the character of an escape
RECURSIVE AnchorFrom(_, _)
AnchorFrom(p, i) ==
    IF i > Len(p) THEN FALSE
    ELSE IF p[i] = BS THEN AnchorFrom(p, i + 2)
    ELSE IF i = Len(p) THEN p[i] = "$"
    ELSE AnchorFrom(p, i + 1)

EndAnchored(p) == AnchorFrom(p, 1)

\* re.search(p, w) is not None, for a pattern that compiles: '$' matches at
\* the end of w and before a line break that ends w
re_search(p, w) ==
    LET atoms == Atoms(p, 1)
        n == Len(atoms)
    IN  \E k \in 0..(Len(w) - n) :
            /\ \A j \in 1..n : InClass(w[k + j], atoms[j])
            /\ EndAnchored(p) =>
                  \/ k + n = Len(w)
                  \/ k + n = Len(w) - 1 /\ w[Len(w)] = NL

\* ------------------------------------------------------------ parser_file
\* RemoveDuplicates keeping the last item of each link instead of the first
RECURSIVE RemoveDuplicates_KeepsLast(_, _)
RemoveDuplicates_KeepsLast(items, all_links) ==
    IF items = << >> THEN << >>
    ELSE IF \E i \in 2..Len(items) : items[i].link = Head(items).link
         THEN RemoveDuplicates_KeepsLast(Tail(items), all_links)
         ELSE <<Head(items)>> \o RemoveDuplicates_KeepsLast(Tail(items), all_links)

\* lines 151-159: keep the first item of each link
RECURSIVE RemoveDuplicates(_, _)
RemoveDuplicates(items, all_links) ==
    IF items = << >> THEN << >>
    ELSE IF Head(items).link \notin all_links
         THEN <<Head(items)>>
              \o RemoveDuplicates(Tail(items), all_links \cup {Head(items).link})
         ELSE RemoveDuplicates(Tail(items), all_links)

\* "if more_regex:" is false for None and for the empty string
Truthy(more_regex) == more_regex # None /\ more_regex[1] # << >>

\* Keeps with re.match in the place of re.search: the pattern must match
\* at the start of the link
Keeps_MatchAtStart(more_regex, item) ==
    IF Truthy(more_regex)
    THEN LET p == more_regex[1]
             atoms == Atoms(p, 1)
             n == Len(atoms)
             w == item.link
         IN  /\ n <= Len(w)
             /\ \A j \in 1..n : InClass(w[j], atoms[j])
             /\ EndAnchored(p) =>
                   \/ n = Len(w)
                   \/ n = Len(w) - 1 /\ w[Len(w)] = NL
    ELSE TRUE

\* the test of lines 165-169 on one item
Keeps(more_regex, item) ==
    IF Truthy(more_regex) THEN re_search(more_regex[1], item.link) ELSE TRUE

RECURSIVE SelectItems(_, _)
SelectItems(items, more_regex) ==
    IF items = << >> THEN << >>
    ELSE IF Keeps(more_regex, Head(items))
         THEN <<Head(items)>> \o SelectItems(Tail(items), more_regex)
         ELSE SelectItems(Tail(items), more_regex)

\* lines 161-171: re.search compiles the pattern when the loop reaches its
\* first item, and not before
SecondaryFilter(items, more_regex) ==
    IF Truthy(more_regex) /\ items # << >> /\ ~ReCompiles(more_regex[1])
    THEN [exc |-> "re.error", items |-> << >>]
    ELSE [exc |-> "none", items |-> SelectItems(items, more_regex)]

\* line 149: the items without context
LinkItems(all_matches) ==
    [i \in 1..Len(all_matches) |-> [link |-> all_matches[i].link]]

\* parser_file: the exception it raises or the items it returns, with a
\* trace of its local values: the reformatting path taken, the text matched
\* on, all_matches, and items as first built (found) and before the filter.
\* Read from the bottom: r is the reformatted content (lines 136-141),
\* all_matches the matches (143-146), got the items or the exception of
\* get_context (147-149), items the items after lines 151-159, out the
\* outcome of lines 161-171.
parser_file(content, mode, more_regex, no_dup) ==
    Only({ Only({ Only({ Only({ Only({
        LET local == [path |-> r.path, text |-> r.text,
                      all_matches |-> all_matches,
                      found |-> got.items, items |-> items]
        IN  IF got.exc # "none"
            THEN [exc |-> got.exc, items |-> << >>, trace |-> local]
            ELSE [exc |-> out.exc, items |-> out.items, trace |-> local]
        : out \in { SecondaryFilter(items, more_regex) } })
        : items \in { IF no_dup = 1 THEN RemoveDuplicates(got.items, {})
                                    ELSE got.items } })
        : got \in { IF mode = 1
                    THEN get_context(all_matches, r.text, FALSE)
                    ELSE [exc |-> "none", items |-> LinkItems(all_matches)] } })
        : all_matches \in { finditer(r.text.s, 1) } })
        : r \in { Reformat(content, mode) } })

\* ----------------------------------------------------- analyze_javascript
\* request.content.strip() == ""
IsBlank(content) == \A i \in 1..Len(content.s) : content.s[i] \in Whitespace

\* EndpointResult with the test of include_context inverted
EndpointResult_Inverted(endpoint, include_context) ==
    [link |-> endpoint.link,
     context |-> IF ~include_context /\ "context" \in DOMAIN endpoint
                 THEN Some(endpoint.context) ELSE None]

\* lines 216-222: EndpointResult(link, context)
EndpointResult(endpoint, include_context) ==
    [link |-> endpoint.link,
     context |-> IF include_context /\ "context" \in DOMAIN endpoint
                 THEN Some(endpoint.context) ELSE None]

NoTrace == [path |-> "unreached"]

\* POST /analyze. The handler's "except Exception" also catches the
\* HTTPException(400) raised inside its own try block (HTTPException is an
\* Exception) and raises HTTPException(500) in its place.
analyze_javascript(req) ==
    IF IsBlank(req.content)
    THEN [response |-> [status_code |-> 500, cause |-> "HTTPException(400)"],
          trace |-> NoTrace]
    ELSE Only({
             IF got.exc # "none"
             THEN [response |-> [status_code |-> 500, cause |-> got.exc],
                   trace |-> got.trace]
             ELSE [response |->
                      [status_code |-> 200,
                       endpoints |-> [i \in 1..Len(got.items) |->
                           EndpointResult(got.items[i], req.include_context)],
                       total_count |-> Len(got.items)],
                   trace |-> got.trace]
             : got \in { parser_file(req.content,
                                     IF req.include_context THEN 1 ELSE 0,
                                     req.filter_regex,
                                     IF req.remove_duplicates THEN 1 ELSE 0) } })

\* ------------------------------------------------------------ the requests
\* the largest number of statements in a request's content
MaxStmts == 2

\* string literals a content is written with
Literals ==
    { <<DQ, "/","a","p","i","/","u","s","e","r","s","/","1","2","3", DQ>>,
      <<DQ, "v","1","/","a","b","c","?","x",",","y", DQ>>,
      <<SQ, "a",".","j","s", SQ>>,
      <<DQ, "a",".","j","s","o","n", DQ>>,
      <<DQ, "/","/","a",".","i","o", DQ>>,
      <<DQ, "x", DQ>> }

Separators == { <<";">>, <<",">> }

\* n statements, each a string literal and a separator
RECURSIVE Statements(_)
Statements(n) ==
    IF n = 0 THEN { << >> }
    ELSE { p \o l \o sep : p \in Statements(n - 1), l \in Literals,
                            sep \in Separators }

\* up to MaxStmts statements, the last with or without its separator
Programs ==
    UNION { { p \o l \o sep : p \in Statements(n - 1), l \in Literals,
                               sep \in Separators \cup { << >> } }
            : n \in 1..MaxStmts }

BlankTexts == { << >>, <<SP>>, <<NL>>, <<VT>>, <<NBSP>> }

\* a content: a program or a blank text, as it is, or followed by spaces up
\* to a length of BeautifyLimit or BeautifyLimit + 1
Contents ==
    { [s |-> w, pad |-> n] :
        w \in Programs \cup BlankTexts,
        n \in {0} } \cup
    { [s |-> w, pad |-> BeautifyLimit - Len(w) + k] :
        w \in Programs \cup BlankTexts, k \in {0, 1} }

\* filter_regex: absent, "", "\.json$", "("
FilterRegexes ==
    { None, Some(<< >>), Some(<<BS, ".", "j", "s", "o", "n", "$">>),
      Some(<<"(">>) }

Requests ==
    [route : {"/analyze"}, content : Contents, include_context : BOOLEAN,
     filter_regex : FilterRegexes, remove_duplicates : BOOLEAN]
    \cup { [route |-> "/"], [route |-> "/health"] }

\* ------------------------------------------------------- the state machine
VARIABLES request, response, trace

vars == <<request, response, trace>>

NoRequest == [route |-> "none"]
NoResponse == [status_code |-> 0]

Init ==
    /\ request = NoRequest
    /\ response = NoResponse
    /\ trace = NoTrace

\* a client sends a request
Submit ==
    /\ request = NoRequest
    /\ request' \in Requests
    /\ UNCHANGED <<response, trace>>

\* GET /
root ==
    /\ request.route = "/"
    /\ response = NoResponse
    /\ response' = [status_code |-> 200, body |-> [status |-> "ok"]]
    /\ UNCHANGED <<request, trace>>

\* GET /health
health_check ==
    /\ request.route = "/health"
    /\ response = NoResponse
    /\ response' = [status_code |-> 200,
                    body |-> [status |-> "healthy", service |-> "LinkFinderAPI"]]
    /\ UNCHANGED <<request, trace>>

\* POST /analyze
Analyze ==
    /\ request.route = "/analyze"
    /\ response = NoResponse
    /\ \E r \in { analyze_javascript(request) } :
          /\ response' = r.response
          /\ trace' = r.trace
    /\ UNCHANGED request

\* the response is sent; nothing is kept between calls
Reply ==
    /\ response # NoResponse
    /\ request' = NoRequest
    /\ response' = NoResponse
    /\ trace' = NoTrace

Next == Submit \/ root \/ health_check \/ Analyze \/ Reply

Spec == Init /\ [][Next]_vars

\* ------------------------------------------------------------- properties
\* /analyze has been handled and parser_file was reached
Parsed == request.route = "/analyze" /\ trace # NoTrace

\* /analyze has answered with a LinkFinderResponse
Succeeded ==
    /\ request.route = "/analyze"
    /\ response # NoResponse
    /\ response.status_code = 200

Links(items) == { items[i].link : i \in 1..Len(items) }

\* the index of the first item of items whose link is l
FirstAt(items, l) ==
    CHOOSE i \in 1..Len(items) :
        items[i].link = l /\ \A j \in 1..(i - 1) : items[j].link # l

\* what the response carries for item, by the options of the request
Carried(item) ==
    [link |-> item.link,
     context |-> IF request.include_context THEN Some(item.context) ELSE None]

\* C1: with remove_duplicates and no filter, the endpoints of a response are
\* the distinct links of the matches, each once, in the order of their first
\* occurrences, each with the context of its first occurrence.
C1_DedupKeepsFirstOccurrences ==
    (Succeeded /\ request.remove_duplicates /\ request.filter_regex = None) =>
        LET eps == response.endpoints
            found == trace.found
        IN  /\ Links(eps) = Links(trace.all_matches)
            /\ \A i, j \in 1..Len(eps) : i < j =>
                  /\ eps[i].link # eps[j].link
                  /\ FirstAt(found, eps[i].link) < FirstAt(found, eps[j].link)
            /\ \A i \in 1..Len(eps) :
                  eps[i] = Carried(found[FirstAt(found, eps[i].link)])

\* C1's case: a link matched twice with different contexts, answered once
C1_Witness ==
    /\ Succeeded /\ request.remove_duplicates /\ request.filter_regex = None
    /\ request.include_context
    /\ Len(response.endpoints) < Len(trace.found)
    /\ \E i, j \in 1..Len(trace.found) :
          /\ i < j
          /\ trace.found[i].link = trace.found[j].link
          /\ trace.found[i].context # trace.found[j].context

\* whether the filter of the request finds a match in link
FilterFinds(link) ==
    request.filter_regex = None \/ re_search(request.filter_regex[1], link)

\* the indices of the items (after deduplication) the filter finds a match in
Wanted == { i \in 1..Len(trace.items) : FilterFinds(trace.items[i].link) }

\* C2: the endpoints of a response are the items left by deduplication in
\* whose link the filter finds a match, in their order; all of them when no
\* filter is given.
C2_FilterKeepsMatchingLinksInOrder ==
    Succeeded =>
        LET eps == response.endpoints
        IN  /\ Len(eps) = Cardinality(Wanted)
            /\ \A i \in Wanted :
                  eps[Cardinality({ j \in Wanted : j <= i })] = Carried(trace.items[i])
            /\ request.filter_regex = None =>
                  Len(eps) = Len(trace.items)
            /\ request.remove_duplicates =>
                  \A i, j \in 1..Len(eps) : i # j => eps[i].link # eps[j].link

\* C2's case: a filter that keeps some of the items and drops others
C2_Witness ==
    /\ Succeeded
    /\ request.filter_regex # None
    /\ Len(response.endpoints) > 0
    /\ Len(response.endpoints) < Len(trace.items)

\* C3: a content that is empty or all white space is answered 400 (invalid
\* input), before any reformatting or matching.
C3_BlankContentIsInvalidInput ==
    (request.route = "/analyze" /\ response # NoResponse
        /\ IsBlank(request.content)) =>
        response.status_code = 400 /\ trace = NoTrace

\* C4: every endpoint of a response has a link, and has a context exactly
\* when include_context was set.
C4_ContextIffIncludeContext ==
    Succeeded =>
        \A i \in 1..Len(response.endpoints) :
            /\ Len(response.endpoints[i].link) > 0
            /\ response.endpoints[i].context # None <=> request.include_context

\* C4's case: a response with endpoints that carry a context, from a call
\* with a filter and without deduplication
C4_Witness ==
    /\ Succeeded
    /\ request.include_context
    /\ request.filter_regex # None
    /\ ~request.remove_duplicates
    /\ Len(response.endpoints) > 0

\* C5: get_context reads no character outside the text, also for a match
\* that ends where the text ends.
C5_ContextNeverIndexesOutside ==
    (request.route = "/analyze" /\ response # NoResponse
        /\ response.status_code # 200) =>
        response.cause # "IndexError"

\* w holds v as a contiguous run
Contains(w, v) ==
    \E k \in 0..(Len(w) - Len(v)) : SubSeq(w, k + 1, k + Len(v)) = v

\* C6: the context of every item holds no line break and holds the whole
\* matched region, both quotes included.
C6_ContextHoldsMatchWithoutDelimiter ==
    (Succeeded /\ request.include_context) =>
        \A i \in 1..Len(trace.found) :
            LET m == trace.all_matches[i]
                context == trace.found[i].context
            IN  /\ \A k \in 1..Len(context.s) :
                      context.s[k] # context_delimiter_str
                /\ Contains(context.s, Slice(trace.text, m.start, m.end).s)

\* C7: a call with a filter pattern that does not compile never succeeds.
C7_InvalidFilterFails ==
    (request.route = "/analyze" /\ response # NoResponse
        /\ request.filter_regex # None
        /\ ~ReCompiles(request.filter_regex[1])) =>
        response.status_code # 200

\* C8: the links matched in the reformatted text are the links matched in
\* the content as it was sent.
C8_ReformatKeepsLinkSet ==
    Parsed =>
        Links(trace.all_matches) = Links(finditer(request.content.s, 1))

\* the reformatting the claim names for the request
ExpectedPath ==
    IF ~request.include_context THEN "none"
    ELSE IF StrLen(request.content) > 1000 * 1000 THEN "cheap"
    ELSE "beautify"

\* C9: whenever parser_file runs, no reformatting happens without
\* include_context (the text matched on is the content), the substitution
\* alone runs above 1,000,000 characters, the beautifier at or below it.
C9_ReformatPathByContextAndLength ==
    Parsed =>
        /\ trace.path = ExpectedPath
        /\ trace.path = "none" => trace.text = request.content

\* C9's case: a content of exactly 1,000,000 characters goes to the beautifier
C9_Witness ==
    /\ Parsed
    /\ request.include_context
    /\ StrLen(request.content) = 1000 * 1000
    /\ trace.path = "beautify"

ApiUsers == <<"/","a","p","i","/","u","s","e","r","s","/","1","2","3">>

\* the quoted token "/api/users/123" stands at position p (1-based) of w
QuotedAt(w, p) ==
    /\ p + Len(ApiUsers) + 1 <= Len(w)
    /\ SubSeq(w, p, p + Len(ApiUsers) + 1) = <<DQ>> \o ApiUsers \o <<DQ>>

\* C10 as stated: the match of "/api/users/123" is made by alternative 4.
C10_ApiUsersByAlternative4 ==
    Parsed =>
        \A i \in 1..Len(trace.all_matches) :
            trace.all_matches[i].link = ApiUsers => trace.all_matches[i].alt = 4

\* C10 amended: wherever the quoted token "/api/users/123" stands in the
\* text, it is matched there with the link /api/users/123, and the
\* alternative that participates is alternative 2 (root/relative path).
C10_ApiUsersByAlternative2 ==
    Parsed =>
        /\ \A i \in 1..Len(trace.all_matches) :
              trace.all_matches[i].link = ApiUsers =>
                  trace.all_matches[i].alt = 2
        /\ \A p \in 1..Len(trace.text.s) :
              QuotedAt(trace.text.s, p) =>
                  \E i \in 1..Len(trace.all_matches) :
                      /\ trace.all_matches[i].start = p - 1
                      /\ trace.all_matches[i].end = p + Len(ApiUsers) + 1
                      /\ trace.all_matches[i].link = ApiUsers

\* C10's case: "/api/users/123" is in the text and is matched
C10_Witness ==
    /\ Parsed
    /\ \E p \in 1..Len(trace.text.s) : QuotedAt(trace.text.s, p)
    /\ \E i \in 1..Len(trace.all_matches) : trace.all_matches[i].link = ApiUsers

=============================================================================
